---- MODULE Spec2Model ----
(***************************************************************************)
(* A model of the Str object (mycpp/str_types.h), the two path helpers of  *)
(* cpp/leaky_pylib.cc and the exception demo of mycpp/target_lang.cc.      *)
(*                                                                         *)
(* A Str is a heap object: header (tag, field_mask, obj_len_) followed by  *)
(* an inline payload data_.  The heap is a sequence of such objects; a     *)
(* reference to a Str is an index into it.  C index i of data_ is index   *)
(* i+1 of the TLA+ sequence.                                               *)
(***************************************************************************)
EXTENDS Integers, Sequences, FiniteSets, TLC

VARIABLES heap, last, pc, num_caught, exc, probe

vars == <<heap, last, pc, num_caught, exc, probe>>

(* ------------------------------- bounds -------------------------------- *)

\* largest string length handed to the allocator
MaxLen == 2

\* largest number of objects on the heap
MaxObjs == 2

\* longest payload of the Strings the path helpers are called with
MaxPathLen == 4

\* largest number of objects on the heap of the path helpers' callers
MaxPathObjs == 3

\* largest argument of the free calls of compare
MaxArg == 2

\* longest text of the free calls of parse
MaxText == 2

(* ----------------------------- constants ------------------------------- *)

\* offsetof(Str, data_): the Obj header (tag, field mask, obj_len_) and the
\* 4 bytes of hash_value_
kStrHeaderSize == 12

\* the field mask of an object without pointers
kZeroMask == 0

\* '/'
Slash == 47

\* '\0'
NUL == 0

\* the bytes of the model: NUL, '/', and 'a' standing for every other byte
Byte == {NUL, Slash, 97}

\* the byte strings of length at most k
ByteSeqs(k) == UNION {[1..n -> Byte] : n \in 0..k}

Min(S) == CHOOSE x \in S : \A y \in S : x <= y

(* ------------------------- Str (str_types.h) --------------------------- *)

StrCtor_WrongTag(payload) ==
  [tag |-> "Scanned", field_mask |-> kZeroMask, obj_len_ |-> 0, data_ |-> payload]

\* explicit Str() : Obj(Tag::Opaque, kZeroMask, 0), run on a region whose
\* payload bytes are `payload`
StrCtor(payload) ==
  [tag |-> "Opaque", field_mask |-> kZeroMask, obj_len_ |-> 0, data_ |-> payload]

\* assert(s->obj_len_ >= kStrHeaderSize - 1)
LenAssert(s) == s.obj_len_ >= kStrHeaderSize - 1

len_NoNul(s) == s.obj_len_ - kStrHeaderSize

\* return s->obj_len_ - kStrHeaderSize - 1
len(s) == s.obj_len_ - kStrHeaderSize - 1

\* obj_len_ = kStrHeaderSize + str_len + 1
SetObjLenFromStrLen(s, str_len) ==
  [s EXCEPT !.obj_len_ = kStrHeaderSize + str_len + 1]

\* the number of payload bytes of the allocation
Capacity(s) == Len(s.data_)

\* the smallest str_len for which the assertion of len passes
MinStrLen == (kStrHeaderSize - 1) - kStrHeaderSize - 1

\* a Str the helpers may be handed: its length is a length, and the payload
\* has room for it and the trailing NUL
WellFormed(s) == LenAssert(s) /\ 0 <= len(s) /\ len(s) < Capacity(s)

\* data_[0 .. len)
Bytes(s) == SubSeq(s.data_, 1, len(s))

\* Str(buf, n): an object of header + n + 1 bytes holding buf's bytes and NUL
NewStr(buf, n) ==
  SetObjLenFromStrLen(
    StrCtor([i \in 1..(n + 1) |-> IF i <= n THEN buf[i] ELSE NUL]), n)

\* allocate(n): a zeroed region with room for n bytes and the trailing NUL
Allocate(n) == StrCtor([i \in 1..(n + 1) |-> NUL])

(* ------------------- path helpers (leaky_pylib.cc) --------------------- *)

RECURSIVE ScanSlashes(_, _, _)
\* for (int i = n - 1; i >= 0; i--) { if (data_[i] == '/') new_len--; else break; }
ScanSlashes(data, i, new_len) ==
  IF i < 0 THEN new_len
  ELSE IF data[i + 1] = Slash THEN ScanSlashes(data, i - 1, new_len - 1)
       ELSE new_len

\* strips the slashes of an all-slashes path as well
rstrip_slashes_StripAll(h, s) ==
  LET n == len(h[s]) IN
  IF n = 0 THEN [heap |-> h, ret |-> s]
  ELSE LET new_len == ScanSlashes(h[s].data_, n - 1, n)
       IN  [heap |-> Append(h, NewStr(h[s].data_, new_len)), ret |-> Len(h) + 1]

\* returns the argument when nothing was stripped
rstrip_slashes_ShortCircuit(h, s) ==
  LET n == len(h[s]) IN
  IF n = 0 THEN [heap |-> h, ret |-> s]
  ELSE LET new_len == ScanSlashes(h[s].data_, n - 1, n)
       IN  IF new_len = 0 \/ new_len = n THEN [heap |-> h, ret |-> s]
           ELSE [heap |-> Append(h, NewStr(h[s].data_, new_len)),
                 ret |-> Len(h) + 1]

\* strips in place: writes the NUL into the argument and shortens it
rstrip_slashes_InPlace(h, s) ==
  LET n == len(h[s]) IN
  IF n = 0 THEN [heap |-> h, ret |-> s]
  ELSE LET new_len == ScanSlashes(h[s].data_, n - 1, n)
       IN  IF new_len = 0 THEN [heap |-> h, ret |-> s]
           ELSE [heap |-> [h EXCEPT ![s] = SetObjLenFromStrLen(
                                     [@ EXCEPT !.data_[new_len + 1] = NUL], new_len)],
                 ret |-> s]

\* strips one slash only
rstrip_slashes_OneSlash(h, s) ==
  LET n == len(h[s]) IN
  IF n = 0 THEN [heap |-> h, ret |-> s]
  ELSE LET new_len == IF h[s].data_[n] = Slash THEN n - 1 ELSE n
       IN  IF new_len = 0 THEN [heap |-> h, ret |-> s]
           ELSE [heap |-> Append(h, NewStr(h[s].data_, new_len)),
                 ret |-> Len(h) + 1]

\* rstrip_slashes(s): the heap after the call and the reference
\* returned
rstrip_slashes(h, s) ==
  LET n == len(h[s]) IN
  IF n = 0 THEN [heap |-> h, ret |-> s]
  ELSE LET new_len == ScanSlashes(h[s].data_, n - 1, n)
       IN  IF new_len = 0 THEN [heap |-> h, ret |-> s]
           ELSE [heap |-> Append(h, NewStr(h[s].data_, new_len)),
                 ret |-> Len(h) + 1]

\* the outcomes of ::stat: success, or -1 with a cause in errno
StatOutcomes == {"OK", "ENOENT", "EACCES"}

\* the value ::stat returns
stat(outcome) == IF outcome = "OK" THEN 0 ELSE -1

HasNul(data) == \E i \in 1..Len(data) : data[i] = NUL

\* the NUL-terminated string a char* to data_ denotes
CStr(data) ==
  SubSeq(data, 1, Min({i \in 1..Len(data) : data[i] = NUL}) - 1)

exists_PermissionDenied(outcome) ==
  IF outcome = "ENOENT" THEN FALSE ELSE TRUE

\* if (::stat(path->data_, &st) < 0) return false; else return true;
exists(outcome) == IF stat(outcome) < 0 THEN FALSE ELSE TRUE

(* ------------------------------ the calls ------------------------------ *)

Refs == 1..Len(heap)

\* the outcome of a call: a value returned, or an exception thrown
NoThrow(v) == [throws |-> "none", val |-> v]

Throw(type) == [throws |-> type, val |-> 0]

NoProbe == [fn |-> "none", a |-> 0, b |-> 0, text |-> <<>>, res |-> NoThrow(0)]

NoCall ==
  [op |-> "none", arg |-> 0, n |-> 0, fresh |-> FALSE, ok |-> TRUE,
   outcome |-> "none",
   path |-> <<>>, retRef |-> 0, retInt |-> 0, retBool |-> FALSE, pre |-> <<>>]

\* AllocStr / OverAllocatedStr: reserve the region and run the constructor.
\* The model follows one String from its allocation; the other objects of
\* the heap are the Strings rstrip_slashes returns.
DoAllocate ==
  /\ heap = <<>>
  /\ \E n \in 0..MaxLen :
       /\ heap' = Append(heap, Allocate(n))
       /\ last' = [NoCall EXCEPT !.op = "AllocStr", !.n = n,
                                 !.retRef = Len(heap) + 1]
  /\ UNCHANGED <<pc, num_caught, exc, probe>>

\* a writer fills the payload of a String under construction through data()
DoWrite ==
  /\ \E r \in Refs :
       /\ heap[r].obj_len_ = 0
       /\ \E i \in 0..(Capacity(heap[r]) - 2), b \in Byte :
            /\ heap' = [heap EXCEPT ![r].data_[i + 1] = b]
            /\ last' = [NoCall EXCEPT !.op = "data", !.arg = r]
  /\ UNCHANGED <<pc, num_caught, exc, probe>>

\* the length set is one the allocation has room for, or a negative one
DoSetObjLenFromStrLen ==
  /\ \E r \in Refs :
     \E n \in MinStrLen..(Capacity(heap[r]) - 1) :
       /\ heap' = [heap EXCEPT ![r] = SetObjLenFromStrLen(heap[r], n)]
       /\ last' = [NoCall EXCEPT !.op = "SetObjLenFromStrLen", !.arg = r,
                                 !.n = n, !.fresh = (heap[r].obj_len_ = 0)]
  /\ UNCHANGED <<pc, num_caught, exc, probe>>

DoLen ==
  /\ \E r \in Refs :
       last' = [NoCall EXCEPT !.op = "len", !.arg = r,
                              !.ok = LenAssert(heap[r]),
                              !.retInt = len(heap[r])]
  /\ UNCHANGED <<heap, pc, num_caught, exc, probe>>

\* a call of os_path::rstrip_slashes on a heap of at most maxObjs objects
RstripSlashesCall(maxObjs) ==
  /\ \E r \in Refs :
       /\ WellFormed(heap[r])
       /\ LET res == rstrip_slashes(heap, r) IN
            /\ Len(res.heap) <= maxObjs
            /\ heap' = res.heap
            /\ last' = [NoCall EXCEPT !.op = "rstrip_slashes", !.arg = r,
                                      !.retRef = res.ret, !.pre = heap]
  /\ UNCHANGED <<pc, num_caught, exc, probe>>

DoRstripSlashes == RstripSlashesCall(MaxObjs)

PathRstripSlashes == RstripSlashesCall(MaxPathObjs)

DoExists ==
  /\ \E r \in Refs, outcome \in StatOutcomes :
       /\ HasNul(heap[r].data_)
       /\ last' = [NoCall EXCEPT !.op = "exists", !.arg = r,
                                 !.outcome = outcome,
                                 !.path = CStr(heap[r].data_),
                                 !.retBool = exists(outcome), !.pre = heap]
  /\ UNCHANGED <<heap, pc, num_caught, exc, probe>>

Init ==
  /\ heap = <<>>
  /\ last = NoCall
  /\ pc = "L119"
  /\ num_caught = 0
  /\ exc = "none"
  /\ probe = NoProbe

Next ==
  \/ DoAllocate
  \/ DoWrite
  \/ DoSetObjLenFromStrLen
  \/ DoLen
  \/ DoRstripSlashes
  \/ DoExists

Spec == Init /\ [][Next]_vars

(* ------------------ the path helpers on given Strings ------------------ *)

\* the finished Strings a caller may hold: a payload written into a zeroed
\* region of n + 1 bytes and a length of at most n set on it
PathStrs ==
  UNION {
    {SetObjLenFromStrLen(StrCtor(Append(b, NUL)), m) : m \in 0..Len(b)} :
      b \in ByteSeqs(MaxPathLen)}

InitPath ==
  /\ \E s \in PathStrs : heap = <<s>>
  /\ last = NoCall
  /\ pc = "L119"
  /\ num_caught = 0
  /\ exc = "none"
  /\ probe = NoProbe

NextPath ==
  \/ PathRstripSlashes
  \/ DoExists

SpecPath == InitPath /\ [][NextPath]_vars

(* ------------------ the exception demo (target_lang.cc) ---------------- *)

\* class ParseError : public FatalError; std::invalid_argument is a
\* std::logic_error, which is a std::exception
Bases(type) ==
  CASE type = "ParseError" -> {"FatalError"}
    [] type = "invalid_argument" -> {"logic_error", "exception"}
    [] OTHER -> {}

Catches_Any(handler, thrown) == TRUE

\* a handler for `handler` catches a thrown `thrown`
Catches(handler, thrown) == thrown = handler \/ handler \in Bases(thrown)

\* int compare(int a, int b)
compare(a, b) ==
  IF a < 0 \/ b < 0 THEN Throw("invalid_argument")
  ELSE NoThrow(IF a < b THEN 1 ELSE 0)

\* text[0] of a C string
Char0(text) == IF Len(text) = 0 THEN NUL ELSE text[1]

\* int parse(const char* text); 102 is 'f'
parse(text) == IF Char0(text) = 102 THEN Throw("ParseError") ELSE NoThrow(0)

\* void throw_fatal()
throw_fatal == Throw("FatalError")

\* a statement outside any try block: an exception leaves except_demo
Plain(r, next) ==
  /\ pc' = IF r.throws = "none" THEN next ELSE "terminated"
  /\ exc' = r.throws
  /\ UNCHANGED num_caught

\* try { r } catch (const handler&) { num_caught++; }
TryCatch(r, handler, next) ==
  IF r.throws = "none"
    THEN pc' = next /\ UNCHANGED <<num_caught, exc>>
    ELSE IF Catches(handler, r.throws)
      THEN pc' = next /\ num_caught' = num_caught + 1 /\ UNCHANGED exc
      ELSE pc' = "terminated" /\ exc' = r.throws /\ UNCHANGED num_caught

\* <<102, 111, 111>> is "foo", <<98, 97, 114>> is "bar"
DemoStep ==
  /\ CASE pc = "L119" -> Plain(compare(1, 3), "L120")
       [] pc = "L120" -> Plain(compare(5, 4), "L123")
       [] pc = "L123" -> TryCatch(compare(-1, 3), "invalid_argument", "L132")
       [] pc = "L132" -> TryCatch(parse(<<102, 111, 111>>), "ParseError", "L139")
       [] pc = "L139" -> TryCatch(parse(<<98, 97, 114>>), "ParseError", "L146")
       \* try { except_subclass_demo(); }: enter the callee
       [] pc = "L146" -> pc' = "L107" /\ UNCHANGED <<num_caught, exc>>
       \* except_subclass_demo: try { throw_fatal(); }
       [] pc = "L107" -> /\ exc' = throw_fatal.throws
                         /\ pc' = "L109"
                         /\ UNCHANGED num_caught
       \* except_subclass_demo: catch (ParseError& e), or unwind to the caller
       [] pc = "L109" -> IF Catches("ParseError", exc)
                           THEN pc' = "L152" /\ exc' = "none" /\ UNCHANGED num_caught
                           ELSE pc' = "L147" /\ UNCHANGED <<num_caught, exc>>
       \* except_demo: catch (const FatalError& e)
       [] pc = "L147" -> IF Catches("FatalError", exc)
                           THEN /\ pc' = "L152"
                                /\ exc' = "none"
                                /\ num_caught' = num_caught + 1
                           ELSE pc' = "terminated" /\ UNCHANGED <<num_caught, exc>>
       \* ASSERT_EQ_FMT(3, num_caught, "%d"); PASS();
       [] pc = "L152" -> /\ pc' = IF num_caught = 3 THEN "PASS" ELSE "FAIL"
                         /\ UNCHANGED <<num_caught, exc>>
       [] OTHER -> FALSE
  /\ UNCHANGED <<heap, last, probe>>

\* the texts of the free calls of parse: over 'f' and 'b'
Texts == UNION {[1..n -> {102, 98}] : n \in 0..MaxText}

CallCompare ==
  /\ \E a \in (-1)..MaxArg, b \in (-1)..MaxArg :
       probe' = [fn |-> "compare", a |-> a, b |-> b, text |-> <<>>,
                 res |-> compare(a, b)]
  /\ UNCHANGED <<heap, last, pc, num_caught, exc>>

CallParse ==
  /\ \E text \in Texts :
       probe' = [fn |-> "parse", a |-> 0, b |-> 0, text |-> text,
                 res |-> parse(text)]
  /\ UNCHANGED <<heap, last, pc, num_caught, exc>>

NextDemo ==
  \/ DemoStep
  \/ CallCompare
  \/ CallParse

SpecDemo == Init /\ [][NextDemo]_vars

(* ------------------------------ the claims ----------------------------- *)

Max(S) == CHOOSE x \in S : \A y \in S : y <= x

AllSlashes(b) == \A i \in 1..Len(b) : b[i] = Slash

\* b without its trailing slashes (the longest prefix of b that does not end
\* in '/'), or b itself when b is empty or all slashes
Stripped(b) ==
  IF AllSlashes(b) THEN b
  ELSE SubSeq(b, 1, Max({k \in 1..Len(b) : b[k] # Slash}))

\* the bytes rstrip_slashes returns for a String holding the bytes b
RstripBytes(b) ==
  LET res == rstrip_slashes(<<NewStr(b, Len(b))>>, 1) IN Bytes(res.heap[res.ret])

\* the argument of the last call, as it was before the call
PreArg == last.pre[last.arg]

\* C1: rstrip_slashes(s) returns a String whose bytes are s without its
\* trailing '/' bytes, and s's bytes when s is empty or all slashes; so
\* "/a/b//" gives "/a/b", "///" gives "///", "" gives "" and "abc" gives "abc"
\* (98 is 'b', 99 is 'c').
C1_RstripSlashesBytes ==
  /\ last.op = "rstrip_slashes" =>
       Bytes(heap[last.retRef]) = Stripped(Bytes(PreArg))
  /\ RstripBytes(<<47, 97, 47, 98, 47, 47>>) = <<47, 97, 47, 98>>
  /\ RstripBytes(<<47, 47, 47>>) = <<47, 47, 47>>
  /\ RstripBytes(<<>>) = <<>>
  /\ RstripBytes(<<97, 98, 99>>) = <<97, 98, 99>>

\* a call that stripped at least two slashes and left a non-empty path
C1_Witness ==
  /\ last.op = "rstrip_slashes"
  /\ len(heap[last.retRef]) >= 1
  /\ len(heap[last.retRef]) + 2 <= len(PreArg)

NoTrailingSlash(s) == len(s) > 0 /\ s.data_[len(s)] # Slash

\* C2 as stated: for a non-empty s without a trailing '/', rstrip_slashes(s)
\* returns the argument reference itself and allocates nothing.
C2_ReturnsArgument ==
  (last.op = "rstrip_slashes" /\ NoTrailingSlash(PreArg)) =>
    (last.retRef = last.arg /\ heap = last.pre)

\* C2 as amended: for a non-empty s without a trailing '/', rstrip_slashes(s)
\* allocates exactly one new String holding the bytes of s and returns it,
\* leaving s as it was; the argument reference itself is returned, with no
\* allocation, exactly when s is empty or all slashes.
C2_ReturnsFreshCopy ==
  last.op = "rstrip_slashes" =>
    /\ NoTrailingSlash(PreArg) =>
         /\ last.retRef = Len(last.pre) + 1
         /\ Len(heap) = Len(last.pre) + 1
         /\ Bytes(heap[last.retRef]) = Bytes(PreArg)
         /\ heap[last.arg] = PreArg
    /\ (last.retRef = last.arg /\ heap = last.pre)
         <=> AllSlashes(Bytes(PreArg))

\* a call on a non-empty path without a trailing slash
C2_Witness ==
  /\ last.op = "rstrip_slashes"
  /\ NoTrailingSlash(PreArg)
  /\ last.retRef # last.arg

\* C3: after s.SetObjLenFromStrLen(n) with n >= 0 the object length is
\* kStrHeaderSize + n + 1, the assertion of len(s) holds and len(s) = n,
\* whatever length an earlier call had set.
C3_LengthRoundTrip ==
  (last.op = "SetObjLenFromStrLen" /\ last.n >= 0) =>
    /\ heap[last.arg].obj_len_ = kStrHeaderSize + last.n + 1
    /\ LenAssert(heap[last.arg])
    /\ len(heap[last.arg]) = last.n

\* a call that set a length on a String whose length had been set before
C3_Witness ==
  /\ last.op = "SetObjLenFromStrLen"
  /\ last.n >= 1
  /\ ~last.fresh

\* C4: SetObjLenFromStrLen(str_len) on a freshly allocated String writes the
\* trailing NUL, so data[len(s)] = 0 right after the call whatever the
\* payload held.
C4_TrailingNulWritten ==
  (/\ last.op = "SetObjLenFromStrLen"
   /\ last.fresh
   /\ 0 <= last.n
   /\ last.n < Capacity(heap[last.arg])) =>
    heap[last.arg].data_[len(heap[last.arg]) + 1] = NUL

\* C5: len never returns a negative length for a Str that passes its
\* assertion.
C5_LenNonNegative ==
  (last.op = "len" /\ last.ok) => last.retInt >= 0

\* C6: exists(path) returns true exactly when the status probe on the
\* NUL-terminated payload succeeds; every failure gives false, whatever its
\* cause, and the call returns normally.
C6_ExistsIffProbeSucceeds ==
  last.op = "exists" =>
    /\ last.retBool \in BOOLEAN
    /\ last.retBool <=> (last.outcome = "OK")
    /\ last.path = CStr(PreArg.data_)

\* a probe that failed for a cause other than a missing file
C6_Witness ==
  /\ last.op = "exists"
  /\ last.outcome = "EACCES"
  /\ last.retBool = FALSE

\* C7: rstrip_slashes and exists leave every String that existed before the
\* call, the argument among them, exactly as it was (payload, object length,
\* header), and a new String rstrip_slashes returns is an object of its own.
C7_ArgumentNotMutated ==
  last.op \in {"rstrip_slashes", "exists"} =>
    /\ \A r \in 1..Len(last.pre) : heap[r] = last.pre[r]
    /\ (last.op = "rstrip_slashes" /\ last.retRef # last.arg) =>
         /\ last.retRef \in Refs
         /\ last.retRef \notin 1..Len(last.pre)

\* a call that stripped a slash and returned a new String
C7_Witness ==
  /\ last.op = "rstrip_slashes"
  /\ last.retRef # last.arg
  /\ len(heap[last.retRef]) < len(PreArg)

\* C8: every Str has tag Opaque and a zero field mask from construction on,
\* and leaves the constructor with object length 0.
C8_OpaqueZeroMask ==
  /\ \A r \in Refs : heap[r].tag = "Opaque" /\ heap[r].field_mask = kZeroMask
  /\ last.op = "AllocStr" => heap[last.retRef].obj_len_ = 0

\* a String made by rstrip_slashes from one that had its length set
C8_Witness ==
  /\ last.op = "rstrip_slashes"
  /\ last.retRef # last.arg
  /\ heap[last.arg].obj_len_ > 0
  /\ heap[last.retRef].tag = "Opaque"

\* C9: the FatalError thrown in except_subclass_demo passes its ParseError
\* handler and reaches the FatalError handler of except_demo; compare throws
\* exactly when an argument is negative, parse throws (a ParseError) exactly
\* when the text starts with 'f'; except_demo ends with 3 exceptions caught.
C9_ExceptDemo ==
  /\ pc \notin {"terminated", "FAIL"}
  /\ pc = "PASS" => num_caught = 3
  /\ pc = "L147" => exc = "FatalError"
  /\ pc = "L152" => exc = "none" /\ num_caught = 3
  /\ probe.fn = "compare" =>
       /\ probe.res.throws # "none" <=> (probe.a < 0 \/ probe.b < 0)
       /\ probe.res.throws \in {"none", "invalid_argument"}
  /\ probe.fn = "parse" =>
       /\ probe.res.throws = "ParseError" <=> Char0(probe.text) = 102
       /\ probe.res.throws \in {"none", "ParseError"}

\* the demo has passed
C9_Witness == pc = "PASS" /\ num_caught = 3 /\ probe.fn = "parse"

\* C10: rstrip_slashes applied to its own result gives the same bytes, and
\* the result for a non-empty path is non-empty and no longer than the path.
C10_Idempotent ==
  last.op = "rstrip_slashes" =>
    /\ LET again == rstrip_slashes(heap, last.retRef) IN
         Bytes(again.heap[again.ret]) = Bytes(heap[last.retRef])
    /\ last.arg > 1 => Bytes(heap[last.retRef]) = Bytes(PreArg)
    /\ len(PreArg) > 0 =>
         /\ len(heap[last.retRef]) > 0
         /\ len(heap[last.retRef]) <= len(PreArg)

\* a call on the String an earlier call returned
C10_Witness ==
  /\ last.op = "rstrip_slashes"
  /\ last.arg > 1
  /\ len(heap[1]) > len(heap[last.arg])

====
